---- MODULE Spec2Model ----
(***************************************************************************)
(* Token-Flight demurrage distribution: block-height collection over the  *)
(* paginated transaction feed (BlockHeightCollector) and the proportional *)
(* allocation of an amount to miners (generate_distribution), with the    *)
(* pool-fee split of the debug notebook.                                   *)
(*                                                                         *)
(* Amounts are integers in units of 1e-8 (the 8 decimals the code rounds  *)
(* to).  Participation percentages are small naturals.                     *)
(***************************************************************************)
EXTENDS Integers, Sequences, FiniteSets, TLC

(* ------------------------------ bounds -------------------------------- *)
MaxLen == 4        \* longest exhaustively enumerated history
MaxBelow == 1      \* heights down to OverrideMinBlock - MaxBelow
MaxAbove == 2      \* heights up to OverrideMinBlock + MaxAbove
MaxLimit == 3      \* page sizes 1..MaxLimit for the exhaustive histories
MaxMiners == 3     \* longest miners list
MaxWeight == 3     \* avg_participation_percentage in 0..MaxWeight
MaxAddr == 2       \* miner addresses 1..MaxAddr
MaxAmount == 6     \* amounts 1..MaxAmount, in units of 1e-8
FeeDen == 4        \* enumerated POOL_FEE_PERCENTAGE values are fee_pct / FeeDen
MaxScale == 3      \* common factors 1..MaxScale applied to the weights
MaxMainLen == 2    \* longest feed of the runs of main()
MaxNew == 2        \* records that join the feed during a walk or between runs
MaxRuns == 2       \* runs that are paid out
MaxMainMiners == 1 \* longest miners list answered to main()

(* ------------------------- program constants -------------------------- *)
LatestLimit == 50            \* "limit": 50 of get_latest_outgoing_block
BlocksLimit == 100           \* limit = 100 of get_blocks_since_last_outgoing
OverrideMinBlock == 1449260  \* min_block = 1449260
RegressionLen == 54          \* the 54-transaction feed of the limit bug report
POOL_FEE_ADDRESS == 0        \* default POOL_FEE_ADDRESS, no miner's address
DefaultFeePct == 1           \* default POOL_FEE_PERCENTAGE '0.01' is
DefaultFeeDen == 100         \*   DefaultFeePct / DefaultFeeDen
ExampleAmount == 121100000   \* "Initial available amount": 1.21100000 ERG
MainAmount == 550000000      \* generate_distribution(miners_data, 5.5, "ergo")

VARIABLES
    history,          \* the address's transaction feed, newest first
    pc,               \* position of the run
    latest_outgoing,  \* value returned by get_latest_outgoing_block
    min_block,        \* local min_block of get_blocks_since_last_outgoing
    all_blocks,       \* local set all_blocks
    current_offset,   \* local current_offset
    limit,            \* local limit
    block_heights,    \* list returned by get_blocks_since_last_outgoing
    requests,         \* every GET .../transactions issued so far
    fetch_failed,     \* some request raised (network / HTTP error)
    miners_data,      \* miners_data['miners'], in the order received
    total_amount,     \* TOTAL_DISTRIBUTION_AMOUNT / total_amount
    fee_configured,   \* the run splits off a pool fee
    fee_pct,          \* POOL_FEE_PERCENTAGE is fee_pct / fee_den
    fee_den,
    fee_address,      \* POOL_FEE_ADDRESS of the run
    pool_fee_amount,  \* pool_fee_amount
    miner_amount,     \* actual_miner_distribution_amount
    recipients,       \* recipients of the distribution
    apc,              \* position of the allocation
    pct_unit,         \* weight units per percent (1: whole percentages)
    percentages_valid,\* value returned by validate_percentages
    mpc,              \* position of main()
    queries,          \* block lists passed to fetch_miners_data so far
    saved_files,      \* what save_distribution_json has written so far
    arrived,          \* records that joined the feed after the walk began
    run_sets          \* block sets of the runs paid out so far

walkVars == << history, pc, latest_outgoing, min_block, all_blocks,
               current_offset, limit, block_heights, requests, fetch_failed >>

allocVars == << miners_data, total_amount, fee_configured, fee_pct, fee_den,
                fee_address, pool_fee_amount, miner_amount, recipients, apc >>

runVars == << pct_unit, percentages_valid, mpc, queries, saved_files,
              arrived, run_sets >>

vars == << walkVars, allocVars, runVars >>

(* ------------------------------ helpers ------------------------------- *)
Min(a, b) == IF a <= b THEN a ELSE b

Range(s) == { s[i] : i \in 1..Len(s) }

SetMin(S) == CHOOSE m \in S : \A x \in S : m <= x

(* sorted(list(all_blocks)) *)
RECURSIVE sorted(_)
sorted(S) ==
    IF S = {} THEN << >>
    ELSE LET m == SetMin(S) IN << m >> \o sorted(S \ {m})

(* ------------------------- the transaction feed ----------------------- *)
Heights == (OverrideMinBlock - MaxBelow)..(OverrideMinBlock + MaxAbove)

Records == [inclusionHeight : Heights, outgoing : BOOLEAN]

NewestFirst(h) ==
    \A i \in 1..(Len(h) - 1) : h[i].inclusionHeight >= h[i + 1].inclusionHeight

SmallHistories ==
    { h \in UNION { [1..n -> Records] : n \in 0..MaxLen } : NewestFirst(h) }

(* A long feed: L records, `per` records per block below height `top`,    *)
(* the wallet being an input of the records at the positions outPos.      *)
BigHistory(L, top, per, outPos) ==
    [ i \in 1..L |->
        [inclusionHeight |-> top - ((i - 1) \div per), outgoing |-> i \in outPos] ]

BigLens == { LatestLimit, LatestLimit + 1, RegressionLen,
             BlocksLimit, BlocksLimit + 1, 2 * BlocksLimit }

BigHistories ==
    { BigHistory(L, top, per, outPos) :
        L \in BigLens,
        top \in { OverrideMinBlock + 1, OverrideMinBlock + LatestLimit + MaxLen },
        per \in { 1, 2, LatestLimit },
        outPos \in { {}, {1}, {LatestLimit}, {LatestLimit + 1},
                     {2, LatestLimit + 1} } }

(* GET /addresses/{wallet}/transactions?offset=..&limit=..  ("items")     *)
Page(hist, offset, lim) ==
    SubSeq(hist, offset + 1, Min(offset + lim, Len(hist)))

Request(site, offset, lim) == [site |-> site, offset |-> offset, limit |-> lim]

(* --------------------- BlockHeightCollector methods ------------------- *)
(* get_latest_outgoing_block: one page, first record with the wallet      *)
(* among its inputs; 0 when there is none or the request raised.          *)
get_latest_outgoing_block(items, ok) ==
    IF ~ok THEN 0
    ELSE IF \E i \in 1..Len(items) : items[i].outgoing
         THEN LET first == SetMin({ i \in 1..Len(items) : items[i].outgoing })
              IN  items[first].inclusionHeight
         ELSE 0

(* mutant: the comparison with min_block admits the reference height *)
PageBlocksInclusive(items, minb) ==
    { items[i].inclusionHeight : i \in { j \in 1..Len(items) :
                                          items[j].inclusionHeight >= minb } }

(* heights of one page that pass `inclusionHeight > min_block` *)
PageBlocks(items, minb) ==
    { items[i].inclusionHeight : i \in { j \in 1..Len(items) :
                                          items[j].inclusionHeight > minb } }

(* mutant: the loop goes on until a page comes back empty *)
LoopContinuesWhileNonEmpty(items, lim) == Len(items) > 0

(* mutant: the walk reads the first page only *)
LoopStopsAfterFirstPage(items, lim) == FALSE

(* the loop goes on after a page: not (len(items) < limit) *)
LoopContinues(items, lim) == ~(Len(items) < lim)

(* mutant: the next page begins one record too far *)
NextOffsetSkipsOne(offset, lim) == offset + lim + 1

(* mutant: the offset counts pages, not records *)
NextOffsetByPage(offset, lim) == offset + 1

(* current_offset += limit *)
NextOffset(offset, lim) == offset + lim

(* mutant: what was collected before the failure is returned *)
BlocksOnFetchErrorPartial(blocks) == sorted(blocks)

(* except Exception: return [] *)
BlocksOnFetchError(blocks) == << >>

(* mutant: the height of the latest outgoing transaction is kept *)
ReferenceBlockLatestOutgoing(latest) == latest

(* min_block = self.get_latest_outgoing_block(); min_block = 1449260 *)
ReferenceBlock(latest) == OverrideMinBlock

(* get_blocks_since_last_outgoing, up to the first loop iteration *)
EnterGetBlocksSince(ok) ==
    /\ pc = "start"
    /\ requests' = Append(requests,
                          Request("get_latest_outgoing_block", 0, LatestLimit))
    /\ latest_outgoing' =
           get_latest_outgoing_block(Page(history, 0, LatestLimit), ok)
    /\ fetch_failed' = ~ok
    /\ min_block' = ReferenceBlock(latest_outgoing')
    /\ IF min_block' = 0
       THEN /\ block_heights' = << >>
            /\ pc' = "returned"
            /\ UNCHANGED << all_blocks, current_offset, limit >>
       ELSE /\ all_blocks' = {}
            /\ current_offset' = 0
            /\ limit' = BlocksLimit
            /\ pc' = "loop"
            /\ UNCHANGED block_heights
    /\ UNCHANGED << history, allocVars, runVars >>

(* one iteration of `while True`, with the return that follows a break *)
FetchPage(ok) ==
    /\ pc = "loop"
    /\ requests' = Append(requests,
                          Request("get_blocks_since_last_outgoing",
                                  current_offset, limit))
    /\ IF ~ok
       THEN /\ fetch_failed' = TRUE
            /\ block_heights' = BlocksOnFetchError(all_blocks)
            /\ pc' = "returned"
            /\ UNCHANGED << all_blocks, current_offset >>
       ELSE LET items == Page(history, current_offset, limit) IN
            /\ UNCHANGED fetch_failed
            /\ IF items = << >>
               THEN /\ block_heights' = sorted(all_blocks)
                    /\ pc' = "returned"
                    /\ UNCHANGED << all_blocks, current_offset >>
               ELSE /\ all_blocks' = all_blocks \cup PageBlocks(items, min_block)
                    /\ IF LoopContinues(items, limit)
                       THEN /\ current_offset' = NextOffset(current_offset, limit)
                            /\ UNCHANGED << block_heights, pc >>
                       ELSE /\ block_heights' = sorted(all_blocks')
                            /\ pc' = "returned"
                            /\ UNCHANGED current_offset
    /\ UNCHANGED << history, latest_outgoing, min_block, limit, allocVars,
                    runVars >>

(* --------------------------- the pool fee ----------------------------- *)
(* Decimal.quantize(Decimal('1E-8')) of num/den units: the default        *)
(* rounding of the decimal context, ROUND_HALF_EVEN.                      *)
quantize(num, den) ==
    LET q == num \div den
        r == num % den
    IN  IF 2 * r < den THEN q
        ELSE IF 2 * r > den THEN q + 1
        ELSE IF q % 2 = 0 THEN q ELSE q + 1

(* mutant: the fee is truncated instead of rounded *)
PoolFeeAmountTruncated(total, pct, den) == (total * pct) \div den

(* (TOTAL_DISTRIBUTION_AMOUNT * POOL_FEE_PERCENTAGE).quantize(..) *)
PoolFeeAmount(total, pct, den) == quantize(total * pct, den)

(* mutant: the whole amount goes to the miners, the fee on top *)
ActualMinerDistributionAmountGross(total, fee) == quantize(total, 1)

(* (TOTAL_DISTRIBUTION_AMOUNT - pool_fee_amount).quantize(..) *)
ActualMinerDistributionAmount(total, fee) == quantize(total - fee, 1)

(* ------------------------ generate_distribution ----------------------- *)
Addrs == 1..MaxAddr

Weights == 0..MaxWeight

Miners == [miner_address : Addrs, avg_participation_percentage : Weights]

MinersLists == UNION { [1..n -> Miners] : n \in 0..MaxMiners }

RECURSIVE total_percentage(_)
total_percentage(miners) ==
    IF miners = << >> THEN 0
    ELSE Head(miners).avg_participation_percentage + total_percentage(Tail(miners))

(* the weights other than zero, in their order *)
RECURSIVE NonZeroWeights(_)
NonZeroWeights(miners) ==
    IF miners = << >> THEN << >>
    ELSE (IF Head(miners).avg_participation_percentage = 0 THEN << >>
          ELSE << Head(miners).avg_participation_percentage >>)
         \o NonZeroWeights(Tail(miners))

(* sum() adds the doubles from left to right, rounding after each step.  *)
(* These are the sequences of percentages, in hundredths and zeros left  *)
(* out, over the values 0.01, 3.35, 13.07, 83.57, 99.99, 100, 100.01 (at *)
(* most four of them) whose decimal sum is 99.99 and whose float sum is  *)
(* 99.98999999999998; every other float sum compares with 99.99 and      *)
(* 100.01 as the decimal sum does.                                       *)
SumFallsShort ==
    { <<335, 8357, 1307>>, <<1307, 8357, 335>>,
      <<8357, 335, 1307>>, <<8357, 1307, 335>> }

(* validate_percentages(miners_data): 99.99 <= total_percentage <= 100.01 *)
(* for weights of `unit` units per percent                               *)
validate_percentages(miners, unit) ==
    LET total == total_percentage(miners) IN
    /\ 9999 * unit <= 100 * total
    /\ 100 * total <= 10001 * unit
    /\ ~(unit = 100 /\ NonZeroWeights(miners) \in SumFallsShort)

RECURSIVE GCD(_, _)
GCD(a, b) == IF b = 0 THEN a ELSE GCD(b, a % b)

(* round() of a float product that lies halfway between two 8-decimal     *)
(* values goes up or down with the binary representation of the product. *)
(* These are the triples << U, a, b >>, a/b in lowest terms, for which    *)
(* round(U e-8 * (w / total_percentage), 8) with w / total_percentage =  *)
(* a/b goes up in IEEE-754 double arithmetic, for U up to 9 units; the   *)
(* other halfway products go down.                                       *)
HalfRoundsUp ==
    { <<1, 1, 2>>, <<2, 1, 4>>, <<2, 3, 4>>, <<4, 1, 8>>, <<4, 3, 8>>,
      <<4, 7, 8>>, <<5, 1, 10>>, <<6, 7, 12>>, <<7, 1, 2>>, <<7, 1, 14>>,
      <<7, 5, 14>>, <<7, 9, 14>>, <<7, 11, 14>>, <<7, 13, 14>>, <<8, 1, 16>>,
      <<8, 3, 16>>, <<8, 7, 16>>, <<8, 11, 16>>, <<9, 5, 18>>, <<9, 7, 18>>,
      <<9, 11, 18>> }

(* mutant: the percentage is taken out of the nominal 100 *)
RoundedShareOfNominal100(total, w, W) ==
    LET g == GCD(w, 100)
        a == w \div g
        b == 100 \div g
        q == (total \div b) * a + ((total % b) * a) \div b
        r == ((total % b) * a) % b
    IN  IF 2 * r < b THEN q
        ELSE IF 2 * r > b THEN q + 1
        ELSE IF << total, a, b >> \in HalfRoundsUp THEN q + 1
        ELSE q

(* round(total_amount * (w / total_percentage), 8), in units; the ratio  *)
(* w / total_percentage is a / b in lowest terms                         *)
RoundedShare(total, w, W) ==
    LET g == GCD(w, W)
        a == w \div g
        b == W \div g
        q == (total \div b) * a + ((total % b) * a) \div b
        r == ((total % b) * a) % b
    IN  IF 2 * r < b THEN q
        ELSE IF 2 * r > b THEN q + 1
        ELSE IF << total, a, b >> \in HalfRoundsUp THEN q + 1
        ELSE q

(* mutant: an amount of one unit is dropped as dust *)
IsIncludedAboveOneUnit(amount) == amount > 1

(* `if amount > 0`: the miner gets an entry *)
IsIncluded(amount) == amount > 0

(* mutant: each new entry is put in front of the list *)
RECURSIVE FirstPassPrepending(_, _, _)
FirstPassPrepending(miners, total, W) ==
    IF miners = << >> THEN << >>
    ELSE LET miner == Head(miners)
             amount == RoundedShare(total, miner.avg_participation_percentage, W)
         IN  FirstPassPrepending(Tail(miners), total, W)
             \o (IF IsIncluded(amount)
                 THEN << [address |-> miner.miner_address, amount |-> amount] >>
                 ELSE << >>)

(* first pass: one entry per miner whose rounded amount is positive *)
RECURSIVE FirstPass(_, _, _)
FirstPass(miners, total, W) ==
    IF miners = << >> THEN << >>
    ELSE LET miner == Head(miners)
             amount == RoundedShare(total, miner.avg_participation_percentage, W)
         IN  (IF IsIncluded(amount)
              THEN << [address |-> miner.miner_address, amount |-> amount] >>
              ELSE << >>)
             \o FirstPass(Tail(miners), total, W)

RECURSIVE SumAmounts(_)
SumAmounts(recips) ==
    IF recips = << >> THEN 0
    ELSE Head(recips).amount + SumAmounts(Tail(recips))

(* mutant: among equal largest amounts the last entry is taken *)
LargestRecipientLastOnTie(recips) ==
    CHOOSE i \in 1..Len(recips) :
        /\ \A j \in 1..Len(recips) : recips[j].amount <= recips[i].amount
        /\ \A j \in (i + 1)..Len(recips) : recips[j].amount < recips[i].amount

(* max(recipients, key=amount): the first entry with the largest amount *)
LargestRecipient(recips) ==
    SetMin({ i \in 1..Len(recips) :
               \A j \in 1..Len(recips) : recips[j].amount <= recips[i].amount })

(* mutant: the discrepancy goes to the last entry *)
AdjustDiscrepancyOnLast(recips, total) ==
    LET running_total == SumAmounts(recips)
        discrepancy == total - running_total
    IN  IF recips # << >> /\ discrepancy # 0
        THEN [recips EXCEPT ![Len(recips)].amount = @ + discrepancy]
        ELSE recips

(* the rounding correction *)
AdjustDiscrepancy(recips, total) ==
    LET running_total == SumAmounts(recips)
        discrepancy == total - running_total
    IN  IF recips # << >> /\ discrepancy # 0
        THEN [recips EXCEPT ![LargestRecipient(recips)].amount = @ + discrepancy]
        ELSE recips

(* generate_distribution(miners_data, total_amount, token_name): the      *)
(* recipients of the one distribution, or the ZeroDivisionError of        *)
(* `percentage / total_percentage`                                        *)
generate_distribution(miners, total) ==
    LET W == total_percentage(miners) IN
    IF miners # << >> /\ W = 0
    THEN [raised |-> TRUE, recipients |-> << >>]
    ELSE [raised |-> FALSE,
          recipients |-> AdjustDiscrepancy(FirstPass(miners, total, W), total)]

(* the fee recipient as an additional entry of the same distribution *)
WithFeeRecipient(recips, addr, fee) ==
    Append(recips, [address |-> addr, amount |-> fee])

(* mutant: the fee entry stays a separate entry *)
MergeFeeEntryKeptApart(recips) == recips

(* the assembler: a fee entry (the last one) whose address is also the   *)
(* address of an earlier entry is merged into the first such entry       *)
MergeFeeEntry(recips) ==
    LET n == Len(recips)
        same == { i \in 1..(n - 1) : recips[i].address = recips[n].address }
    IN  IF n = 0 \/ same = {} THEN recips
        ELSE [SubSeq(recips, 1, n - 1)
                 EXCEPT ![SetMin(same)].amount = @ + recips[n].amount]

(* the amount handed to generate_distribution *)
DistributedAmount == IF fee_configured THEN miner_amount ELSE total_amount

(* notebook: pool_fee_amount, actual_miner_distribution_amount *)
SplitPoolFee ==
    /\ apc = "input"
    /\ fee_configured
    /\ pool_fee_amount' = PoolFeeAmount(total_amount, fee_pct, fee_den)
    /\ miner_amount' = ActualMinerDistributionAmount(total_amount, pool_fee_amount')
    /\ apc' = "split"
    /\ UNCHANGED << miners_data, total_amount, fee_configured, fee_pct, fee_den,
                    fee_address, recipients, walkVars, runVars >>

GenerateDistribution ==
    /\ apc = (IF fee_configured THEN "split" ELSE "input")
    /\ LET res == generate_distribution(miners_data, DistributedAmount) IN
          /\ recipients' = res.recipients
          /\ apc' = (IF res.raised THEN "raised" ELSE "generated")
    /\ UNCHANGED << miners_data, total_amount, fee_configured, fee_pct, fee_den,
                    fee_address, pool_fee_amount, miner_amount, walkVars,
                    runVars >>

AppendFeeRecipient ==
    /\ apc = "generated"
    /\ fee_configured
    /\ recipients' = WithFeeRecipient(recipients, fee_address, pool_fee_amount)
    /\ apc' = "appended"
    /\ UNCHANGED << miners_data, total_amount, fee_configured, fee_pct, fee_den,
                    fee_address, pool_fee_amount, miner_amount, walkVars,
                    runVars >>

(* the assembler packages the distribution *)
AssembleDistribution ==
    /\ apc = "appended"
    /\ recipients' = MergeFeeEntry(recipients)
    /\ apc' = "assembled"
    /\ UNCHANGED << miners_data, total_amount, fee_configured, fee_pct, fee_den,
                    fee_address, pool_fee_amount, miner_amount, walkVars,
                    runVars >>

WalkIdle ==
    /\ history = << >>
    /\ pc = "idle"
    /\ latest_outgoing = 0
    /\ min_block = 0
    /\ all_blocks = {}
    /\ current_offset = 0
    /\ limit = 0
    /\ block_heights = << >>
    /\ requests = << >>
    /\ fetch_failed = FALSE

RunIdle ==
    /\ pct_unit = 1
    /\ percentages_valid = "none"
    /\ mpc = "collect"
    /\ queries = << >>
    /\ saved_files = << >>
    /\ arrived = 0
    /\ run_sets = << >>

(* ------------------------- the run as coded --------------------------- *)
AllocIdle ==
    /\ miners_data = << >>
    /\ total_amount = 0
    /\ fee_configured = FALSE
    /\ fee_pct = 0
    /\ fee_den = 1
    /\ fee_address = POOL_FEE_ADDRESS
    /\ pool_fee_amount = 0
    /\ miner_amount = 0
    /\ recipients = << >>
    /\ apc = "idle"

Init ==
    /\ history \in SmallHistories \cup BigHistories
    /\ pc = "start"
    /\ latest_outgoing = 0
    /\ min_block = 0
    /\ all_blocks = {}
    /\ current_offset = 0
    /\ limit = 0
    /\ block_heights = << >>
    /\ requests = << >>
    /\ fetch_failed = FALSE
    /\ AllocIdle
    /\ RunIdle

Next ==
    \/ \E ok \in BOOLEAN : EnterGetBlocksSince(ok)
    \/ \E ok \in BOOLEAN : FetchPage(ok)

Spec == Init /\ [][Next]_vars

(* ------------- the page loop over every reference and page size ------- *)
Refs == Heights

InitWalk ==
    /\ \/ /\ history \in SmallHistories
          /\ limit \in 1..MaxLimit
       \/ /\ history \in BigHistories
          /\ limit \in { LatestLimit, BlocksLimit }
    /\ min_block \in Refs
    /\ pc = "loop"
    /\ latest_outgoing = 0
    /\ all_blocks = {}
    /\ current_offset = 0
    /\ block_heights = << >>
    /\ requests = << >>
    /\ fetch_failed = FALSE
    /\ AllocIdle
    /\ RunIdle

NextWalk == \E ok \in BOOLEAN : FetchPage(ok)

SpecWalk == InitWalk /\ [][NextWalk]_vars

(* ------------- the allocation over every miners list and amount ------- *)
(* the fee address of a run: the default, or the address of a miner *)
FeeAddresses == { POOL_FEE_ADDRESS, 1 }

InitAlloc ==
    /\ \/ /\ miners_data \in MinersLists
          /\ total_amount \in 1..MaxAmount
          /\ fee_configured \in BOOLEAN
          /\ fee_den = (IF fee_configured THEN FeeDen ELSE 1)
          /\ fee_pct \in (IF fee_configured THEN 0..(FeeDen - 1) ELSE {0})
       \/ /\ miners_data =
                << [miner_address |-> 1, avg_participation_percentage |-> 60],
                   [miner_address |-> 2, avg_participation_percentage |-> 40] >>
          /\ total_amount = ExampleAmount
          /\ fee_configured = TRUE
          /\ fee_den = DefaultFeeDen
          /\ fee_pct = DefaultFeePct
    /\ fee_address \in (IF fee_configured THEN FeeAddresses ELSE {POOL_FEE_ADDRESS})
    /\ pool_fee_amount = 0
    /\ miner_amount = 0
    /\ recipients = << >>
    /\ apc = "input"
    /\ WalkIdle
    /\ RunIdle

NextAlloc ==
    \/ SplitPoolFee
    \/ GenerateDistribution
    \/ AppendFeeRecipient
    \/ AssembleDistribution

SpecAlloc == InitAlloc /\ [][NextAlloc]_vars

(* ------------------- the page loop over a growing feed ---------------- *)
(* height of the newest record of the feed *)
TopHeight(hist) ==
    IF hist = << >> THEN OverrideMinBlock - MaxBelow ELSE hist[1].inclusionHeight

(* the explorer lists a new transaction of the address, at the top of    *)
(* the newest-first feed, between two page requests of the loop          *)
RecordArrives(rec) ==
    /\ pc = "loop"
    /\ requests # << >>
    /\ arrived < MaxNew
    /\ rec.inclusionHeight >= TopHeight(history)
    /\ history' = << rec >> \o history
    /\ arrived' = arrived + 1
    /\ UNCHANGED << pc, latest_outgoing, min_block, all_blocks, current_offset,
                    limit, block_heights, requests, fetch_failed, allocVars,
                    pct_unit, percentages_valid, mpc, queries, saved_files,
                    run_sets >>

IncomingRecords == { r \in Records : ~r.outgoing }

InitGrow ==
    /\ history \in { h \in SmallHistories :
                        \A i \in 1..Len(h) : h[i] \in IncomingRecords }
    /\ limit \in 1..MaxLimit
    /\ min_block \in Refs
    /\ pc = "loop"
    /\ latest_outgoing = 0
    /\ all_blocks = {}
    /\ current_offset = 0
    /\ block_heights = << >>
    /\ requests = << >>
    /\ fetch_failed = FALSE
    /\ AllocIdle
    /\ RunIdle

NextGrow ==
    \/ \E ok \in BOOLEAN : FetchPage(ok)
    \/ \E rec \in IncomingRecords : RecordArrives(rec)

SpecGrow == InitGrow /\ [][NextGrow]_vars

(* ---------------------- successive runs, paid out -------------------- *)
(* the short feeds on which whole runs are followed *)
MainHistories == { h \in SmallHistories : Len(h) <= MaxMainLen }

(* heights of the n newest records of the feed *)
NewestHeights(hist, n) == { hist[i].inclusionHeight : i \in 1..n }

RECURSIVE LateCount(_)
LateCount(sets) ==
    IF sets = << >> THEN 0 ELSE Head(sets).late_count + LateCount(Tail(sets))

(* a new incoming transaction of the wallet is listed after a run has    *)
(* collected its blocks and before the run's payout is on the chain      *)
RecordArrivesLate(rec) ==
    /\ pc = "returned"
    /\ block_heights # << >>
    /\ arrived < MaxNew
    /\ rec.inclusionHeight >= TopHeight(history)
    /\ history' = << rec >> \o history
    /\ arrived' = arrived + 1
    /\ UNCHANGED << pc, latest_outgoing, min_block, all_blocks, current_offset,
                    limit, block_heights, requests, fetch_failed, allocVars,
                    pct_unit, percentages_valid, mpc, queries, saved_files,
                    run_sets >>

(* the distribution of the run is executed: its transaction, an outgoing *)
(* one of the wallet, is included at height h and tops the feed; the     *)
(* next run is a new process                                             *)
PayoutIncluded(h) ==
    /\ pc = "returned"
    /\ block_heights # << >>
    /\ Len(run_sets) < MaxRuns
    /\ h >= TopHeight(history)
    /\ history' = << [inclusionHeight |-> h, outgoing |-> TRUE] >> \o history
    /\ run_sets' = Append(run_sets,
          [blocks |-> Range(block_heights),
           late |-> NewestHeights(history, arrived - LateCount(run_sets)),
           late_count |-> arrived - LateCount(run_sets),
           payout |-> h])
    /\ pc' = "start"
    /\ latest_outgoing' = 0
    /\ min_block' = 0
    /\ all_blocks' = {}
    /\ current_offset' = 0
    /\ limit' = 0
    /\ block_heights' = << >>
    /\ requests' = << >>
    /\ fetch_failed' = FALSE
    /\ UNCHANGED << allocVars, pct_unit, percentages_valid, mpc, queries,
                    saved_files, arrived >>

InitRuns ==
    /\ history \in MainHistories
    /\ pc = "start"
    /\ latest_outgoing = 0
    /\ min_block = 0
    /\ all_blocks = {}
    /\ current_offset = 0
    /\ limit = 0
    /\ block_heights = << >>
    /\ requests = << >>
    /\ fetch_failed = FALSE
    /\ AllocIdle
    /\ RunIdle

NextRuns ==
    \/ \E ok \in BOOLEAN : EnterGetBlocksSince(ok)
    \/ \E ok \in BOOLEAN : FetchPage(ok)
    \/ \E rec \in IncomingRecords : RecordArrivesLate(rec)
    \/ \E h \in Heights : PayoutIncluded(h)

SpecRuns == InitRuns /\ [][NextRuns]_vars

(* ------------------------------- main() ------------------------------ *)
(* mutant: main goes on with an empty block list *)
HasBlocksAlways(block_list) == TRUE

(* not (`if not block_heights`) *)
HasBlocks(block_list) == block_list # << >>

(* `if not block_heights: print(...); return` *)
MainNoBlocks ==
    /\ pc = "returned"
    /\ mpc = "collect"
    /\ ~HasBlocks(block_heights)
    /\ mpc' = "done"
    /\ UNCHANGED << walkVars, allocVars, pct_unit, percentages_valid, queries,
                    saved_files, arrived, run_sets >>

(* miners_data = fetch_miners_data(block_heights): the answer of the     *)
(* participation API, or the exception of the request                    *)
FetchMinersData(ok, answer) ==
    /\ pc = "returned"
    /\ mpc = "collect"
    /\ HasBlocks(block_heights)
    /\ queries' = Append(queries, block_heights)
    /\ IF ok
       THEN /\ miners_data' = answer
            /\ mpc' = "allocate"
       ELSE /\ mpc' = "failed"
            /\ UNCHANGED miners_data
    /\ UNCHANGED << walkVars, total_amount, fee_configured, fee_pct, fee_den,
                    fee_address, pool_fee_amount, miner_amount, recipients, apc,
                    pct_unit, percentages_valid, saved_files, arrived, run_sets >>

(* distribution = generate_distribution(miners_data, 5.5, "ergo") *)
MainGenerateDistribution ==
    /\ mpc = "allocate"
    /\ total_amount' = MainAmount
    /\ LET res == generate_distribution(miners_data, MainAmount) IN
          /\ recipients' = res.recipients
          /\ apc' = (IF res.raised THEN "raised" ELSE "generated")
          /\ mpc' = (IF res.raised THEN "failed" ELSE "save")
    /\ UNCHANGED << walkVars, miners_data, fee_configured, fee_pct, fee_den,
                    fee_address, pool_fee_amount, miner_amount, pct_unit,
                    percentages_valid, queries, saved_files, arrived, run_sets >>

(* save_distribution_json(distribution, output_file), or the exception   *)
(* of open()                                                             *)
SaveDistributionJson(ok) ==
    /\ mpc = "save"
    /\ IF ok
       THEN /\ saved_files' = Append(saved_files,
                                     [blocks |-> Len(block_heights),
                                      recipients |-> recipients])
            /\ mpc' = "done"
       ELSE /\ mpc' = "failed"
            /\ UNCHANGED saved_files
    /\ UNCHANGED << walkVars, allocVars, pct_unit, percentages_valid, queries,
                    arrived, run_sets >>

MinersAnswers == { m \in MinersLists : Len(m) <= MaxMainMiners }

InitMain ==
    /\ history \in MainHistories
    /\ pc = "start"
    /\ latest_outgoing = 0
    /\ min_block = 0
    /\ all_blocks = {}
    /\ current_offset = 0
    /\ limit = 0
    /\ block_heights = << >>
    /\ requests = << >>
    /\ fetch_failed = FALSE
    /\ AllocIdle
    /\ RunIdle

NextMain ==
    \/ \E ok \in BOOLEAN : EnterGetBlocksSince(ok)
    \/ \E ok \in BOOLEAN : FetchPage(ok)
    \/ MainNoBlocks
    \/ \E ok \in BOOLEAN, answer \in MinersAnswers : FetchMinersData(ok, answer)
    \/ MainGenerateDistribution
    \/ \E ok \in BOOLEAN : SaveDistributionJson(ok)

SpecMain == InitMain /\ [][NextMain]_vars

(* ------------- validate_percentages over percentages near 100 --------- *)
(* percentages in hundredths: 0, 0.01, 3.35, 13.07, 83.57, 99.99, 100,   *)
(* 100.01                                                                *)
PercentValues == { 0, 1, 335, 1307, 8357, 9999, 10000, 10001 }

PercentLists ==
    UNION { [1..n -> [miner_address : {1},
                      avg_participation_percentage : PercentValues]] :
            n \in 0..MaxMiners }

ValidatePercentages ==
    /\ apc = "validate"
    /\ percentages_valid' = validate_percentages(miners_data, pct_unit)
    /\ apc' = "validated"
    /\ UNCHANGED << miners_data, total_amount, fee_configured, fee_pct, fee_den,
                    fee_address, pool_fee_amount, miner_amount, recipients,
                    walkVars, pct_unit, mpc, queries, saved_files, arrived,
                    run_sets >>

InitValidate ==
    /\ miners_data \in PercentLists
    /\ pct_unit = 100
    /\ apc = "validate"
    /\ total_amount = 0
    /\ fee_configured = FALSE
    /\ fee_pct = 0
    /\ fee_den = 1
    /\ fee_address = POOL_FEE_ADDRESS
    /\ pool_fee_amount = 0
    /\ miner_amount = 0
    /\ recipients = << >>
    /\ percentages_valid = "none"
    /\ mpc = "collect"
    /\ queries = << >>
    /\ saved_files = << >>
    /\ arrived = 0
    /\ run_sets = << >>
    /\ WalkIdle

NextValidate == ValidatePercentages

SpecValidate == InitValidate /\ [][NextValidate]_vars

(* ============================ properties ============================== *)
TotalWeight == total_percentage(miners_data)

(* heights of the whole feed above a reference *)
HeightsAbove(hist, ref) ==
    { h \in { hist[i].inclusionHeight : i \in 1..Len(hist) } : h > ref }

(* height of the most recent record of the whole feed in which the wallet *)
(* is an input, 0 when there is none                                      *)
MostRecentOutgoing(hist) ==
    IF \E i \in 1..Len(hist) : hist[i].outgoing
    THEN hist[SetMin({ i \in 1..Len(hist) : hist[i].outgoing })].inclusionHeight
    ELSE 0

(* C1: for a non-empty miners list of positive total weight and a        *)
(* positive amount, the recipients returned by generate_distribution sum *)
(* to the amount it was given.                                           *)
C1_SumEqualsTotalAmount ==
    (apc = "generated" /\ miners_data # << >> /\ TotalWeight > 0)
        => SumAmounts(recipients) = DistributedAmount

(* C2: with a fee configured, the recipients of the final distribution,  *)
(* the fee recipient included, sum to the distributable amount.          *)
C2_SumWithFeeEqualsDistributable ==
    (apc = "assembled" /\ miners_data # << >> /\ TotalWeight > 0)
        => SumAmounts(recipients) = total_amount

(* C3: the fee is the distributable amount times the fee percentage      *)
(* rounded to a whole unit (at most half a unit away), and the fee and   *)
(* the miner amount sum to the distributable amount.                     *)
C3_FeeSplitExact ==
    (fee_configured /\ apc # "input") =>
        /\ pool_fee_amount + miner_amount = total_amount
        /\ 2 * (pool_fee_amount * fee_den - total_amount * fee_pct) <= fee_den
        /\ 2 * (total_amount * fee_pct - pool_fee_amount * fee_den) <= fee_den

(* a split in which the product was not a whole number of units and both *)
(* parts are positive                                                    *)
C3_Witness ==
    /\ apc = "split"
    /\ (total_amount * fee_pct) % fee_den # 0
    /\ pool_fee_amount > 0
    /\ miner_amount > 0

(* C4: for an empty miners list, or one whose weights are all zero,      *)
(* generate_distribution returns a distribution without recipients and   *)
(* raises nothing.                                                       *)
C4_EmptyParticipationEmptyDistribution ==
    (apc \in {"generated", "raised"} /\ (miners_data = << >> \/ TotalWeight = 0))
        => (apc = "generated" /\ recipients = << >>)

(* C5: when every fetch succeeds, the list returned by the page loop     *)
(* holds exactly the heights of the whole feed above the reference,      *)
(* whatever the page size.                                               *)
C5_CollectsEveryBlockAboveReference ==
    (pc = "returned" /\ ~fetch_failed)
        => Range(block_heights) = HeightsAbove(history, min_block)

(* the 54-record feed read with page size 50: the heights of the records *)
(* at positions 51..54, which occur on no earlier position, are returned *)
C5_Witness ==
    /\ pc = "returned"
    /\ ~fetch_failed
    /\ Len(history) = RegressionLen
    /\ limit = LatestLimit
    /\ \A i \in (LatestLimit + 1)..RegressionLen :
          /\ history[i].inclusionHeight \in Range(block_heights)
          /\ \A j \in 1..LatestLimit :
                history[j].inclusionHeight # history[i].inclusionHeight

(* C6: all requests to the transaction feed made during a run carry the  *)
(* same limit.                                                           *)
C6_OnePageSize ==
    \A i, j \in 1..Len(requests) : requests[i].limit = requests[j].limit

(* C7: when its request succeeds, get_latest_outgoing_block returns the  *)
(* height of the most recent record of the whole feed in which the       *)
(* wallet is an input, and 0 only when the feed has no such record.      *)
C7_LatestOutgoingOfWholeHistory ==
    (Len(requests) = 1 /\ ~fetch_failed)
        => latest_outgoing = MostRecentOutgoing(history)

(* C8: the returned list is strictly ascending (hence without            *)
(* duplicates) and holds only heights above the reference.               *)
C8_AscendingAboveReference ==
    pc = "returned" =>
        /\ \A i, j \in 1..Len(block_heights) :
              i < j => block_heights[i] < block_heights[j]
        /\ \A i \in 1..Len(block_heights) : block_heights[i] > min_block

(* several records share a height above the reference, on different      *)
(* pages, and records at the reference height are on the feed            *)
C8_Witness ==
    /\ pc = "returned"
    /\ Len(block_heights) >= 2
    /\ \E i, j \in 1..Len(history) :
          /\ i + limit <= j
          /\ history[i].inclusionHeight = history[j].inclusionHeight
          /\ history[i].inclusionHeight > min_block
    /\ \E i \in 1..Len(history) : history[i].inclusionHeight = min_block

(* C9: when get_latest_outgoing_block found an outgoing record, its      *)
(* height is the reference of the collection, and the returned heights   *)
(* are those of the feed above it.                                       *)
C9_ReferenceIsLatestOutgoing ==
    /\ (pc \in {"loop", "returned"} /\ latest_outgoing > 0)
          => min_block = latest_outgoing
    /\ (pc = "returned" /\ ~fetch_failed /\ latest_outgoing > 0)
          => Range(block_heights) = HeightsAbove(history, latest_outgoing)

(* C10: when get_latest_outgoing_block returned 0, the collection        *)
(* returns the empty list without a request of its own.                  *)
C10_NoReferenceNoCollection ==
    (pc # "start" /\ latest_outgoing = 0) =>
        /\ pc = "returned"
        /\ block_heights = << >>
        /\ \A i \in 1..Len(requests) :
              requests[i].site # "get_blocks_since_last_outgoing"

(* C11: a call of the collection returns either nothing or the complete  *)
(* set of heights above the reference; after a failed page fetch the     *)
(* heights of the earlier pages are not returned.                        *)
C11_NoPartialBlockSet ==
    pc = "returned" =>
        /\ \/ block_heights = << >>
           \/ Range(block_heights) = HeightsAbove(history, min_block)
        /\ fetch_failed => block_heights = << >>

(* a later page fails after earlier pages gave heights above the         *)
(* reference                                                             *)
C11_Witness ==
    /\ pc = "returned"
    /\ fetch_failed
    /\ Len(requests) >= 2
    /\ all_blocks # {}
    /\ all_blocks # HeightsAbove(history, min_block)
    /\ block_heights = << >>

(* C12: after a failed fetch the value handed to the caller differs from *)
(* the legitimate results: the reference-point search does not answer 0  *)
(* ("no reference found") and the collection does not answer the empty   *)
(* list ("no blocks").                                                   *)
C12_FetchFailureDistinguishable ==
    /\ (Len(requests) = 1 /\ fetch_failed) => latest_outgoing # 0
    /\ (pc = "returned" /\ fetch_failed) => block_heights # << >>

(* indices of the miners whose weight is positive *)
PositiveMiners ==
    { i \in 1..Len(miners_data) : miners_data[i].avg_participation_percentage > 0 }

(* C13: for any weights and a positive amount, every entry returned by   *)
(* generate_distribution has an amount above zero, and the entries are   *)
(* those of the miners whose rounded share is above zero.                *)
C13_NoZeroValueOutput ==
    (apc = "generated" /\ DistributedAmount > 0) =>
        /\ \A i \in 1..Len(recipients) : recipients[i].amount > 0
        /\ Len(recipients) =
              Cardinality({ i \in PositiveMiners :
                  RoundedShare(DistributedAmount,
                               miners_data[i].avg_participation_percentage,
                               TotalWeight) > 0 })

(* C14: with exactly one miner of positive weight and a positive amount, *)
(* generate_distribution returns one entry, for that miner, whose amount *)
(* is the amount given, and the first pass already sums to the amount    *)
(* (the discrepancy is zero).                                            *)
C14_SingleParticipantGetsAll ==
    (apc = "generated" /\ Cardinality(PositiveMiners) = 1 /\ DistributedAmount > 0) =>
        /\ Len(recipients) = 1
        /\ recipients[1].amount = DistributedAmount
        /\ \A i \in PositiveMiners : recipients[1].address = miners_data[i].miner_address
        /\ SumAmounts(FirstPass(miners_data, DistributedAmount, TotalWeight))
              = DistributedAmount

(* one miner of positive weight listed after a miner of weight zero, the *)
(* amount being what the fee split left                                  *)
C14_Witness ==
    /\ apc = "generated"
    /\ fee_configured
    /\ pool_fee_amount > 0
    /\ Len(miners_data) >= 2
    /\ PositiveMiners = {2}
    /\ miners_data[2].avg_participation_percentage > 1
    /\ DistributedAmount > 1
    /\ Len(recipients) = 1

(* C15: with N >= 2 miners of one positive weight and an amount that N   *)
(* does not divide, there are N entries in input order, entries 2..N     *)
(* carry the common rounded share, and the first entry alone differs     *)
(* from it and carries the remainder.                                    *)
C15_EqualWeightsRemainderOnFirst ==
    LET N == Len(miners_data)
        c == RoundedShare(DistributedAmount, 1, N)
    IN  (/\ apc = "generated"
         /\ N >= 2
         /\ PositiveMiners = 1..N
         /\ \A i \in 1..N : miners_data[i].avg_participation_percentage
                               = miners_data[1].avg_participation_percentage
         /\ DistributedAmount % N # 0) =>
            /\ Len(recipients) = N
            /\ \A i \in 1..N : recipients[i].address = miners_data[i].miner_address
            /\ \A i \in 2..N : recipients[i].amount = c
            /\ recipients[1].amount # c
            /\ recipients[1].amount = DistributedAmount - (N - 1) * c

(* C17: no address occurs in two entries of a returned distribution,     *)
(* also when miners_data lists an address more than once.                *)
C17_AddressesUnique ==
    apc \in {"generated", "assembled"} =>
        \A i, j \in 1..Len(recipients) :
            i # j => recipients[i].address # recipients[j].address

(* C20: generate_distribution returns either entries that sum to the     *)
(* amount it was given, or no entry at all for an empty miners list or   *)
(* one of total weight zero; every other input ends in an exception.     *)
C20_ExactSumOrError ==
    apc = "generated" =>
        \/ SumAmounts(recipients) = DistributedAmount
        \/ /\ recipients = << >>
           /\ (miners_data = << >> \/ TotalWeight = 0)

(* indices of the miners whose address is the fee address *)
FeeAddressMiners ==
    { i \in 1..Len(miners_data) : miners_data[i].miner_address = fee_address }

(* C16: when the fee address is the address of a miner, the assembled    *)
(* distribution has one entry for that address, and its amount is the    *)
(* miner's share (nothing when the share was dropped) plus the fee.      *)
C16_FeeAddressMerged ==
    (apc = "assembled" /\ Cardinality(FeeAddressMiners) = 1) =>
        LET shares == generate_distribution(miners_data, miner_amount).recipients
            own == { i \in 1..Len(shares) : shares[i].address = fee_address }
            share == IF own = {} THEN 0 ELSE shares[SetMin(own)].amount
            merged == { i \in 1..Len(recipients) :
                          recipients[i].address = fee_address }
        IN  /\ Cardinality(merged) = 1
            /\ \A i \in merged : recipients[i].amount = share + pool_fee_amount
            /\ \A i \in 1..Len(shares) :
                  shares[i].address # fee_address => recipients[i] = shares[i]

(* the fee address is that of a miner with a positive share, listed      *)
(* before another miner, and the fee is positive                         *)
C16_Witness ==
    /\ apc = "assembled"
    /\ Cardinality(FeeAddressMiners) = 1
    /\ pool_fee_amount > 0
    /\ Len(recipients) = 2
    /\ recipients[1].address = fee_address
    /\ recipients[1].amount > pool_fee_amount
    /\ recipients[2].amount > 0

(* C18: for 1.211 and a fee of 1% the fee is 0.01211 and the miners get  *)
(* 1.19889; miners weighted 60 and 40 get 0.719334 and 0.479556; with    *)
(* the fee entry the three entries sum to 1.211.                         *)
C18_EndToEndExample ==
    (/\ total_amount = ExampleAmount
     /\ fee_configured
     /\ fee_pct = DefaultFeePct
     /\ fee_den = DefaultFeeDen
     /\ Len(miners_data) = 2
     /\ miners_data[1].avg_participation_percentage = 60
     /\ miners_data[2].avg_participation_percentage = 40) =>
        /\ apc # "input" =>
              /\ pool_fee_amount = 1211000
              /\ miner_amount = 119889000
        /\ apc \in {"generated", "appended"} =>
              /\ recipients[1].amount = 71933400
              /\ recipients[2].amount = 47955600
        /\ apc = "generated" => Len(recipients) = 2
        /\ apc = "appended" =>
              /\ Len(recipients) = 3
              /\ recipients[3].amount = pool_fee_amount
        /\ apc \in {"appended", "assembled"} =>
              SumAmounts(recipients) = ExampleAmount
        /\ (apc = "assembled" /\ fee_address = POOL_FEE_ADDRESS) =>
              Len(recipients) = 3

(* the example run, assembled with the fee entry of the default address  *)
C18_Witness ==
    /\ apc = "assembled"
    /\ total_amount = ExampleAmount
    /\ fee_address = POOL_FEE_ADDRESS
    /\ Len(recipients) = 3
    /\ recipients[1].amount = 71933400
    /\ recipients[3].amount = 1211000

(* every weight times the common factor k *)
Scaled(miners, k) ==
    [i \in 1..Len(miners) |->
        [miners[i] EXCEPT !.avg_participation_percentage = @ * k]]

C21_PageRequestCount ==
    /\ ~fetch_failed => Len(requests) <= (Len(history) \div limit) + 1
    /\ (pc = "returned" /\ ~fetch_failed) =>
          /\ Len(requests) = (Len(history) \div limit) + 1
          /\ Len(Page(history, current_offset, limit)) < limit
          /\ \A i \in 1..(Len(requests) - 1) :
                Len(Page(history, requests[i].offset, limit)) = limit

(* the 54-record feed is read with page size 100 in one request *)
C21_Witness ==
    /\ pc = "returned"
    /\ ~fetch_failed
    /\ limit = BlocksLimit
    /\ Len(history) = RegressionLen
    /\ Len(requests) = 1
    /\ Len(block_heights) > 0

(* C22: the i-th request of the page loop has offset (i - 1) * p and     *)
(* limit p, and after a full page the next page is requested whether or  *)
(* not the page held a height above the reference.                       *)
C22_OffsetsInStepsOfLimit ==
    /\ \A i \in 1..Len(requests) :
          /\ requests[i].offset = (i - 1) * limit
          /\ requests[i].limit = limit
    /\ pc = "loop" => current_offset = Len(requests) * limit
    /\ (pc = "returned" /\ ~fetch_failed) =>
          Len(Page(history, requests[Len(requests)].offset, limit)) < limit

(* a full first page without any height above the reference is followed *)
(* by a request for the second page                                      *)
C22_Witness ==
    /\ Len(requests) >= 2
    /\ Len(Page(history, 0, limit)) = limit
    /\ PageBlocks(Page(history, 0, limit), min_block) = {}
    /\ requests[2].offset = limit

(* the entries of the first pass for the run's miners and amount, and    *)
(* what they leave of the amount                                         *)
RoundedEntries == FirstPass(miners_data, DistributedAmount, TotalWeight)

Discrepancy == DistributedAmount - SumAmounts(RoundedEntries)

(* C23: the rounding correction changes one entry only: a discrepancy    *)
(* other than zero is added whole to the first entry with the largest    *)
(* rounded amount, and every other entry keeps its rounded amount; a     *)
(* discrepancy of zero changes nothing.                                  *)
C23_CorrectionChangesOneEntry ==
    apc = "generated" =>
        /\ Len(recipients) = Len(RoundedEntries)
        /\ IF RoundedEntries = << >> \/ Discrepancy = 0
           THEN recipients = RoundedEntries
           ELSE \E m \in 1..Len(RoundedEntries) :
                   /\ \A j \in 1..Len(RoundedEntries) :
                         RoundedEntries[j].amount <= RoundedEntries[m].amount
                   /\ \A j \in 1..(m - 1) :
                         RoundedEntries[j].amount < RoundedEntries[m].amount
                   /\ recipients[m].address = RoundedEntries[m].address
                   /\ recipients[m].amount = RoundedEntries[m].amount + Discrepancy
                   /\ \A j \in 1..Len(RoundedEntries) :
                         j # m => recipients[j] = RoundedEntries[j]

(* a discrepancy with two entries tied for the largest rounded amount    *)
(* behind a smaller one                                                  *)
C23_Witness ==
    /\ apc = "generated"
    /\ Discrepancy # 0
    /\ Len(RoundedEntries) = 3
    /\ RoundedEntries[1].amount < RoundedEntries[2].amount
    /\ RoundedEntries[2].amount = RoundedEntries[3].amount
    /\ recipients[2].amount # RoundedEntries[2].amount

(* the miners that get an entry in the first pass, and the position of   *)
(* a miner's entry                                                       *)
IncludedMiners ==
    { i \in PositiveMiners :
        RoundedShare(DistributedAmount,
                     miners_data[i].avg_participation_percentage,
                     TotalWeight) > 0 }

EntryOf(i) == Cardinality({ j \in IncludedMiners : j <= i })

(* the entries of the miners are in the order of miners_data *)
MinersInInputOrder ==
    \A i \in IncludedMiners :
        /\ EntryOf(i) <= Len(recipients)
        /\ recipients[EntryOf(i)].address = miners_data[i].miner_address

(* C24: the entries of the returned distribution are those of the miners *)
(* with a positive rounded amount, in the order of miners_data, and with *)
(* a fee the fee entry comes last.                                       *)
C24_InputOrderFeeLast ==
    /\ apc = "generated" =>
          /\ Len(recipients) = Cardinality(IncludedMiners)
          /\ MinersInInputOrder
    /\ (apc = "appended"
           \/ (apc = "assembled" /\ FeeAddressMiners = {})) =>
          /\ Len(recipients) = Cardinality(IncludedMiners) + 1
          /\ MinersInInputOrder
          /\ recipients[Len(recipients)]
                = [address |-> fee_address, amount |-> pool_fee_amount]

(* the second of three miners has no entry, the miners differ, and the   *)
(* fee entry has been appended                                           *)
C24_Witness ==
    /\ apc = "appended"
    /\ Len(miners_data) = 3
    /\ IncludedMiners = {1, 3}
    /\ miners_data[1].miner_address # miners_data[3].miner_address
    /\ Len(recipients) = 3
    /\ pool_fee_amount > 0

(* the amount finally allocated to the i-th miner *)
FinalAmount(i) ==
    IF i \in IncludedMiners THEN recipients[EntryOf(i)].amount ELSE 0

(* the miner whose entry takes the rounding correction *)
CorrectedMiners ==
    IF RoundedEntries # << >> /\ Discrepancy # 0
    THEN { i \in IncludedMiners : EntryOf(i) = LargestRecipient(RoundedEntries) }
    ELSE {}

(* C30: of two miners the one with the larger or equal weight finally    *)
(* gets at least as much as the other.                                   *)
C30_FinalAmountsFollowWeights ==
    apc = "generated" =>
        \A a, b \in 1..Len(miners_data) :
            miners_data[a].avg_participation_percentage
               >= miners_data[b].avg_participation_percentage
            => FinalAmount(a) >= FinalAmount(b)

(* C30 as amended: the order holds between any two miners other than the *)
(* one whose entry takes the rounding correction.                        *)
C30_UncorrectedAmountsFollowWeights ==
    apc = "generated" =>
        \A a, b \in (1..Len(miners_data)) \ CorrectedMiners :
            miners_data[a].avg_participation_percentage
               >= miners_data[b].avg_participation_percentage
            => FinalAmount(a) >= FinalAmount(b)

(* a corrected run with two other miners of different weights and        *)
(* different final amounts                                               *)
C30_Witness ==
    /\ apc = "generated"
    /\ CorrectedMiners # {}
    /\ \E a, b \in (1..Len(miners_data)) \ CorrectedMiners :
          /\ miners_data[a].avg_participation_percentage
                > miners_data[b].avg_participation_percentage
          /\ FinalAmount(a) > FinalAmount(b)
          /\ FinalAmount(b) > 0

(* C25: validate_percentages returns True exactly when the percentages   *)
(* sum to a value in [99.99, 100.01], and False otherwise, and leaves    *)
(* the participation data as it was.                                     *)
C25_ValidWithinTolerance ==
    apc = "validated" =>
        /\ percentages_valid \in BOOLEAN
        /\ percentages_valid
              = (/\ 9999 * pct_unit <= 100 * TotalWeight
                 /\ 100 * TotalWeight <= 10001 * pct_unit)

(* C26: the participation query is sent once, after the collection has   *)
(* returned a block list that is not empty, and with that list; the      *)
(* allocation follows the answer; a file is saved only after the query   *)
(* and the allocation succeeded; when the block list is empty or a step  *)
(* fails nothing is saved.                                               *)
C26_StepsInOrder ==
    /\ queries # << >> =>
          /\ pc = "returned"
          /\ block_heights # << >>
          /\ queries = << block_heights >>
    /\ mpc \in {"allocate", "save"} => queries # << >>
    /\ mpc = "save" => apc = "generated"
    /\ saved_files # << >> =>
          /\ mpc = "done"
          /\ queries # << >>
          /\ apc = "generated"
          /\ saved_files = << [blocks |-> Len(block_heights),
                               recipients |-> recipients] >>
    /\ (mpc = "failed" \/ (mpc = "done" /\ block_heights = << >>)) =>
          saved_files = << >>
    /\ (mpc = "done" /\ block_heights = << >>) => queries = << >>

(* a run that saved a distribution with a recipient *)
C26_Witness ==
    /\ mpc = "done"
    /\ saved_files # << >>
    /\ saved_files[1].recipients # << >>
    /\ Len(requests) = 2
    /\ queries = << block_heights >>

(* the feed as it was when the walk began: the records below the ones    *)
(* that arrived since                                                    *)
FeedAtStart == SubSeq(history, arrived + 1, Len(history))

(* C29: when records join the top of the feed between page requests, a   *)
(* walk whose fetches succeed still returns every height above the       *)
(* reference of the feed it started on, and returns no height twice.     *)
C29_GrowingFeedLosesNothing ==
    (pc = "returned" /\ ~fetch_failed) =>
        /\ HeightsAbove(FeedAtStart, min_block) \subseteq Range(block_heights)
        /\ \A i, j \in 1..Len(block_heights) :
              i < j => block_heights[i] < block_heights[j]

(* records arrived after the first page, a record of the first page was  *)
(* read again on a later page, and the feed the walk started on had      *)
(* heights above the reference on more than one page                     *)
C29_Witness ==
    /\ pc = "returned"
    /\ ~fetch_failed
    /\ arrived >= 1
    /\ Len(requests) > (Len(FeedAtStart) \div limit) + 1
    /\ Len(FeedAtStart) > limit
    /\ FeedAtStart[Len(FeedAtStart)].inclusionHeight > min_block
    /\ Len(block_heights) >= 2

(* C27: no height is in the block sets of two runs: the block sets of    *)
(* the runs paid out are pairwise disjoint, and the block list a later   *)
(* run returns shares no height with them.                               *)
C27_NoBlockPaidTwice ==
    /\ \A i, j \in 1..Len(run_sets) :
          i # j => run_sets[i].blocks \cap run_sets[j].blocks = {}
    /\ \A i \in 1..Len(run_sets) :
          Range(block_heights) \cap run_sets[i].blocks = {}

====
